---------------------------- MODULE Spec2Model ----------------------------
(***************************************************************************)
(* jfind scanner: discovery walk (JavaFinder.Find), runtime evaluation,    *)
(* license rule engine (checkLicenseRequirement) and report assembly       *)
(* (handleJSONOutput / handleRegularOutput), modelled from                 *)
(* src/scanner/main.go, src/scanner/java_license_check.go and              *)
(* src/scanner/java_properties.go.                                         *)
(*                                                                         *)
(* Go strings are sequences of one-character strings, so that substring    *)
(* search and case folding are computed and not assumed.  A nil pointer is *)
(* the empty sequence <<>>, a non-nil pointer to v is <<v>>.               *)
(***************************************************************************)
EXTENDS Integers, Sequences, FiniteSets, TLC

VARIABLES
    pc,        \* position of the program
    config,    \* parsed command line (parseFlags)
    goos,      \* runtime.GOOS of the build
    results,   \* []*JavaResult returned by Find
    visits,    \* history: the candidates evaluateFile accepted, in visit order
    scanned,   \* JavaFinder.scanned
    found,     \* JavaFinder.found
    runtime,   \* JavaRuntimeJSON built by createRuntimeJSON (license specification)
    javaOutput,  \* the property lines a subprocess wrote (parser specification)
    cursor,    \* position of the range loop over results
    output,    \* JSONOutput under construction in handleJSONOutput
    hasOracle,             \* local of handleJSONOutput
    countRequireLicense,   \* local of handleJSONOutput
    report,    \* the JSON document written to standard output, if any
    post,      \* the HTTP exchange of sendJSON, if any
    stdout,    \* the text lines written to standard output
    root,      \* what the start path is on disk when main starts
    work,      \* the entries filepath.Walk still has to visit, next one first
    findErr,   \* the error Find returns
    done,      \* number of times f.done has been closed
    reporter,  \* the goroutine of startProgressReporting: "idle", "running", "exited"
    ticks,     \* number of status lines the reporter has written to standard error
    lateTicks, \* history: how many of them were written after Find had returned
    hung,      \* history: a launched subprocess never exits
    dirCalls,  \* history: how many directories the callback was handed, by kind
    listed,      \* number of directory entries the file system has shown so far
    candidates,  \* history: the candidate entries the file system has shown
    errs         \* history: the <<path, error>> pairs handed to the walk callback

vars == <<pc, config, goos, results, visits, scanned, found, runtime, javaOutput, cursor,
         output, hasOracle, countRequireLicense, report, post, stdout, root, work,
         findErr, done, reporter, ticks, lateTicks, hung, dirCalls,
         listed, candidates, errs>>

\* the variables of the walk
walkVars == <<root, work, findErr, done, reporter, ticks, lateTicks, hung, dirCalls, listed,
             candidates,
             errs>>

---------------------------------------------------------------------------
(* strings *)

Upper == <<"A","B","C","D","E","F","G","H","I","J","K","L","M",
           "N","O","P","Q","R","S","T","U","V","W","X","Y","Z">>
Lower == <<"a","b","c","d","e","f","g","h","i","j","k","l","m",
           "n","o","p","q","r","s","t","u","v","w","x","y","z">>

\* unicode.ToLower on one (ASCII) character
LowerChar(c) ==
    IF \E i \in DOMAIN Upper : Upper[i] = c
    THEN Lower[CHOOSE i \in DOMAIN Upper : Upper[i] = c]
    ELSE c

\* strings.ToLower
ToLower(s) == [i \in DOMAIN s |-> LowerChar(s[i])]

\* strings.Contains(s, substr)
Contains(s, substr) ==
    \E i \in 1..(Len(s) - Len(substr) + 1) :
        SubSeq(s, i, i + Len(substr) - 1) = substr

Oracle == <<"O","r","a","c","l","e">>
openjdk == <<"o","p","e","n","j","d","k">>
commercial == <<"c","o","m","m","e","r","c","i","a","l">>
OpenJDKRuntimeEnvironment ==
    <<"O","p","e","n","J","D","K"," ","R","u","n","t","i","m","e"," ",
      "E","n","v","i","r","o","n","m","e","n","t">>

Nil == <<>>
Ptr(v) == <<v>>
Deref(p) == p[1]

---------------------------------------------------------------------------
(* property text parser *)

Digits == <<"0","1","2","3","4","5","6","7","8","9">>
IsDigit(c) == \E i \in DOMAIN Digits : Digits[i] = c
DigitVal(c) == (CHOOSE i \in DOMAIN Digits : Digits[i] = c) - 1

IsSpace(c) == c \in {" ", "\t", "\n", "\r"}

\* strings.Index(s, c) for a one-character needle; 0 stands for Go's -1 and
\* positions are 1-based
Index(s, c) ==
    IF \E i \in DOMAIN s : s[i] = c
    THEN CHOOSE i \in DOMAIN s : s[i] = c /\ \A k \in 1..(i - 1) : s[k] # c
    ELSE 0

\* strings.TrimSpace
TrimSpace(s) ==
    IF \A i \in DOMAIN s : IsSpace(s[i]) THEN <<>>
    ELSE LET first == CHOOSE i \in DOMAIN s :
                          ~IsSpace(s[i]) /\ \A k \in 1..(i - 1) : IsSpace(s[k])
             last == CHOOSE i \in DOMAIN s :
                          ~IsSpace(s[i]) /\ \A k \in (i + 1)..Len(s) : IsSpace(s[k])
         IN SubSeq(s, first, last)

\* strings.Split(s, sep) for a one-character separator
RECURSIVE Split(_, _)
Split(s, sep) ==
    IF Index(s, sep) = 0 THEN <<s>>
    ELSE <<SubSeq(s, 1, Index(s, sep) - 1)>>
         \o Split(SubSeq(s, Index(s, sep) + 1, Len(s)), sep)

\* bufio.MaxScanTokenSize, the buffer limit of a Scanner made by bufio.NewScanner
MaxScanTokenSize == 65536

\* bufio.Scanner with ScanLines: lines without their terminator, a trailing
\* carriage return dropped, no empty final token after the last newline.  A
\* line that does not fit the buffer ends the scan (Scan returns false; the
\* parser does not look at scanner.Err()).
DropCR(l) == IF Len(l) > 0 /\ l[Len(l)] = "\r" THEN SubSeq(l, 1, Len(l) - 1) ELSE l

RECURSIVE ScanLines(_)
ScanLines(input) ==
    IF input = <<>> THEN <<>>
    ELSE LET n == Index(input, "\n")
             raw == IF n = 0 THEN input ELSE SubSeq(input, 1, n - 1)
         IN IF Len(raw) >= MaxScanTokenSize THEN <<>>
            ELSE <<DropCR(raw)>> \o
                 (IF n = 0 THEN <<>> ELSE ScanLines(SubSeq(input, n + 1, Len(input))))

RECURSIVE DecimalValue(_)
DecimalValue(ds) ==
    IF ds = <<>> THEN 0
    ELSE 10 * DecimalValue(SubSeq(ds, 1, Len(ds) - 1)) + DigitVal(ds[Len(ds)])

\* Atoi that reads the leading digits and stops at the first other character
AtoiLeadingDigits(s) ==
    LET stop == IF \E i \in DOMAIN s : ~IsDigit(s[i])
                THEN (CHOOSE i \in DOMAIN s : ~IsDigit(s[i]) /\ \A k \in 1..(i - 1) : IsDigit(s[k]))
                ELSE Len(s) + 1
    IN DecimalValue(SubSeq(s, 1, stop - 1))

\* strconv.Atoi with the error discarded: a syntax error gives 0
Atoi(s) ==
    LET signed == Len(s) > 0 /\ s[1] \in {"+", "-"}
        body == IF signed THEN Tail(s) ELSE s
    IN IF body = <<>> \/ \E i \in DOMAIN body : ~IsDigit(body[i]) THEN 0
       ELSE IF signed /\ s[1] = "-" THEN 0 - DecimalValue(body)
       ELSE DecimalValue(body)

HasPrefix(s, p) == Len(s) >= Len(p) /\ SubSeq(s, 1, Len(p)) = p

\* parseJavaVersion that takes the update of a modern version from its second
\* component
parseJavaVersionMinor(version) ==
    LET parts == Split(version, ".")
    IN IF HasPrefix(version, <<"1", ".">>)
       THEN << IF Len(parts) >= 2 THEN Atoi(parts[2]) ELSE 0,
               IF Index(version, "_") # 0
               THEN Atoi(SubSeq(version, Index(version, "_") + 1, Len(version)))
               ELSE 0 >>
       ELSE << IF Len(parts) >= 1 THEN Atoi(parts[1]) ELSE 0,
               IF Len(parts) >= 2 THEN Atoi(parts[2]) ELSE 0 >>

\* parseJavaVersion: <<major, update>>
parseJavaVersion(version) ==
    LET parts == Split(version, ".")
    IN IF HasPrefix(version, <<"1", ".">>)
       THEN << IF Len(parts) >= 2 THEN Atoi(parts[2]) ELSE 0,
               IF Index(version, "_") # 0
               THEN Atoi(SubSeq(version, Index(version, "_") + 1, Len(version)))
               ELSE 0 >>
       ELSE << IF Len(parts) >= 1 THEN Atoi(parts[1]) ELSE 0,
               IF Len(parts) >= 3 THEN Atoi(parts[3]) ELSE 0 >>

KeyVersion == <<"j","a","v","a",".","v","e","r","s","i","o","n">>
KeyVendor == <<"j","a","v","a",".","v","e","n","d","o","r">>
KeyRuntimeName ==
    <<"j","a","v","a",".","r","u","n","t","i","m","e",".","n","a","m","e">>

EmptyProperties ==
    [Version |-> <<>>, Vendor |-> <<>>, RuntimeName |-> <<>>, Major |-> 0, Update |-> 0]

\* ParseLine that compares the key without trimming it
ParseLineRawKey(props, text) ==
    LET line == TrimSpace(text)
        idx == Index(line, "=")
        key == SubSeq(line, 1, idx - 1)
        value == TrimSpace(SubSeq(line, idx + 1, Len(line)))
    IN IF line = <<>> \/ idx = 0 THEN props
       ELSE IF key = KeyVersion THEN [props EXCEPT !.Version = value]
       ELSE IF key = KeyVendor THEN [props EXCEPT !.Vendor = value]
       ELSE IF key = KeyRuntimeName THEN [props EXCEPT !.RuntimeName = value]
       ELSE props

\* one iteration of the scanner loop of ParseJavaProperties
ParseLine(props, text) ==
    LET line == TrimSpace(text)
        idx == Index(line, "=")
        key == TrimSpace(SubSeq(line, 1, idx - 1))
        value == TrimSpace(SubSeq(line, idx + 1, Len(line)))
    IN IF line = <<>> \/ idx = 0 THEN props
       ELSE IF key = KeyVersion THEN [props EXCEPT !.Version = value]
       ELSE IF key = KeyVendor THEN [props EXCEPT !.Vendor = value]
       ELSE IF key = KeyRuntimeName THEN [props EXCEPT !.RuntimeName = value]
       ELSE props

RECURSIVE ParseLines(_, _)
ParseLines(props, lines) ==
    IF lines = <<>> THEN props
    ELSE ParseLines(ParseLine(props, Head(lines)), Tail(lines))

ParseJavaProperties(input) ==
    LET props == ParseLines(EmptyProperties, ScanLines(input))
    IN IF props.Version # <<>>
       THEN [props EXCEPT !.Major = parseJavaVersion(props.Version)[1],
                          !.Update = parseJavaVersion(props.Version)[2]]
       ELSE props

---------------------------------------------------------------------------
(* license rule engine *)

\* LicenseRequired with the JDK 8 boundary off by one (update < 202 is free)
LicenseRequiredBoundary(j) ==
    IF j.JavaRuntime # <<>> /\ Contains(ToLower(j.JavaRuntime), openjdk) THEN FALSE
    ELSE IF j.JavaRuntime = OpenJDKRuntimeEnvironment THEN FALSE
    ELSE IF j.JavaRuntime # <<>> /\ Contains(ToLower(j.JavaRuntime), commercial) THEN TRUE
    ELSE IF j.VersionMajor = 7 THEN ~(j.VersionUpdate <= 80)
    ELSE IF j.VersionMajor = 8 THEN ~(j.VersionUpdate < 202)
    ELSE IF j.VersionMajor = 11 THEN TRUE
    ELSE IF j.VersionMajor = 17 THEN j.VersionUpdate >= 13
    ELSE IF j.VersionMajor >= 18 /\ j.VersionMajor <= 20 THEN FALSE
    ELSE IF j.VersionMajor >= 21 THEN FALSE
    ELSE TRUE

\* LicenseRequired with the commercial test moved before the openjdk tests
LicenseRequiredSwapped(j) ==
    IF j.JavaRuntime # <<>> /\ Contains(ToLower(j.JavaRuntime), commercial) THEN TRUE
    ELSE IF j.JavaRuntime # <<>> /\ Contains(ToLower(j.JavaRuntime), openjdk) THEN FALSE
    ELSE IF j.JavaRuntime = OpenJDKRuntimeEnvironment THEN FALSE
    ELSE IF j.VersionMajor = 7 THEN ~(j.VersionUpdate <= 80)
    ELSE IF j.VersionMajor = 8 THEN ~(j.VersionUpdate <= 202)
    ELSE IF j.VersionMajor = 11 THEN TRUE
    ELSE IF j.VersionMajor = 17 THEN j.VersionUpdate >= 13
    ELSE IF j.VersionMajor >= 18 /\ j.VersionMajor <= 20 THEN FALSE
    ELSE IF j.VersionMajor >= 21 THEN FALSE
    ELSE TRUE

\* The cascade of checkLicenseRequirement after the Oracle test: the value
\* stored through j.RequireLicense.
LicenseRequired(j) ==
    IF j.JavaRuntime # <<>> /\ Contains(ToLower(j.JavaRuntime), openjdk) THEN FALSE
    ELSE IF j.JavaRuntime = OpenJDKRuntimeEnvironment THEN FALSE
    ELSE IF j.JavaRuntime # <<>> /\ Contains(ToLower(j.JavaRuntime), commercial) THEN TRUE
    ELSE IF j.VersionMajor = 7 THEN ~(j.VersionUpdate <= 80)
    ELSE IF j.VersionMajor = 8 THEN ~(j.VersionUpdate <= 202)
    ELSE IF j.VersionMajor = 11 THEN TRUE
    ELSE IF j.VersionMajor = 17 THEN j.VersionUpdate >= 13
    ELSE IF j.VersionMajor >= 18 /\ j.VersionMajor <= 20 THEN FALSE
    ELSE IF j.VersionMajor >= 21 THEN FALSE
    ELSE TRUE

\* (j *JavaRuntimeJSON) checkLicenseRequirement(): the record after the call
checkLicenseRequirement(j) ==
    IF ~j.IsOracle
    THEN [j EXCEPT !.RequireLicense = Nil]
    ELSE [j EXCEPT !.RequireLicense = Ptr(LicenseRequired(j))]

\* JavaRuntimeJSON{JavaExecutable: path}: every other field has its zero value
NewRuntimeJSON(path) ==
    [JavaExecutable |-> path, JavaRuntime |-> <<>>, JavaVendor |-> <<>>,
     IsOracle |-> FALSE, JavaVersion |-> <<>>, VersionMajor |-> 0,
     VersionUpdate |-> 0, ExecFailed |-> FALSE, RequireLicense |-> Nil]

\* the record filled from result.Properties with the vendor test made
\* case-insensitive
IdentityJSONFolded(result) ==
    [NewRuntimeJSON(result.Path) EXCEPT
        !.JavaVersion = Deref(result.Properties).Version,
        !.JavaVendor = Deref(result.Properties).Vendor,
        !.JavaRuntime = Deref(result.Properties).RuntimeName,
        !.IsOracle = Contains(ToLower(Deref(result.Properties).Vendor), ToLower(Oracle)),
        !.VersionMajor = Deref(result.Properties).Major,
        !.VersionUpdate = Deref(result.Properties).Update]

\* the record filled from result.Properties (shared by createRuntimeJSON and
\* handleRegularOutput), before checkLicenseRequirement
IdentityJSON(result) ==
    [NewRuntimeJSON(result.Path) EXCEPT
        !.JavaVersion = Deref(result.Properties).Version,
        !.JavaVendor = Deref(result.Properties).Vendor,
        !.JavaRuntime = Deref(result.Properties).RuntimeName,
        !.IsOracle = Contains(Deref(result.Properties).Vendor, Oracle),
        !.VersionMajor = Deref(result.Properties).Major,
        !.VersionUpdate = Deref(result.Properties).Update]

\* the condition under which identity fields are populated
Succeeded(result, evaluate) ==
    evaluate /\ result.Properties # Nil /\ result.Error = "nil" /\ result.ReturnCode = 0

\* createRuntimeJSON with a plain else: every record without identity is flagged
createRuntimeJSONFlagAll(result, evaluate) ==
    IF Succeeded(result, evaluate)
    THEN checkLicenseRequirement(IdentityJSON(result))
    ELSE [NewRuntimeJSON(result.Path) EXCEPT !.ExecFailed = TRUE]

\* createRuntimeJSON that flags a successful run whose dump named no version and
\* no vendor
createRuntimeJSONFlagEmpty(result, evaluate) ==
    IF Succeeded(result, evaluate)
    THEN IF Deref(result.Properties).Version = <<>> /\ Deref(result.Properties).Vendor = <<>>
         THEN [NewRuntimeJSON(result.Path) EXCEPT !.ExecFailed = TRUE]
         ELSE checkLicenseRequirement(IdentityJSON(result))
    ELSE IF evaluate /\ (result.Error # "nil" \/ result.ReturnCode # 0)
    THEN [NewRuntimeJSON(result.Path) EXCEPT !.ExecFailed = TRUE]
    ELSE NewRuntimeJSON(result.Path)

createRuntimeJSON(result, evaluate) ==
    IF Succeeded(result, evaluate)
    THEN checkLicenseRequirement(IdentityJSON(result))
    ELSE IF evaluate /\ (result.Error # "nil" \/ result.ReturnCode # 0)
    THEN [NewRuntimeJSON(result.Path) EXCEPT !.ExecFailed = TRUE]
    ELSE NewRuntimeJSON(result.Path)

---------------------------------------------------------------------------
(* sample property dumps *)

OracleCorporation == Oracle \o <<" ","C","o","r","p","o","r","a","t","i","o","n">>
JavaSE == <<"J","a","v","a","(","T","M",")"," ","S","E">>

NL == <<"\n">>
PropertyLine(key, value) == <<" "," "," "," ">> \o key \o <<" ","="," ">> \o value \o NL

\* sample property dumps of java -XshowSettings:properties -version
TextOracle8u211 ==
    <<"P","r","o","p","e","r","t","y"," ","s","e","t","t","i","n","g","s",":">> \o NL
    \o PropertyLine(KeyRuntimeName, JavaSE \o <<" ","R","u","n","t","i","m","e">>)
    \o PropertyLine(KeyVendor, OracleCorporation)
    \o PropertyLine(KeyVersion, <<"1",".","8",".","0","_","2","1","1">>)
TextOracle8u202 ==
    PropertyLine(KeyVendor, OracleCorporation)
    \o PropertyLine(KeyVersion, <<"1",".","8",".","0","_","2","0","2">>)
TextOpenJDK17 ==
    PropertyLine(KeyRuntimeName, OpenJDKRuntimeEnvironment)
    \o PropertyLine(KeyVendor, <<"A","z","u","l">>)
    \o PropertyLine(KeyVersion, <<"1","7",".","0",".","1">>)
TextNoKeys == <<"j","a","v","a"," ","1","7">> \o NL

SampleTexts == { TextOracle8u211, TextOracle8u202, TextOpenJDK17, TextNoKeys, <<>> }

\* ParseJavaProperties on the sample dumps, evaluated once
ParsedSamples == [t \in SampleTexts |-> ParseJavaProperties(t)]

---------------------------------------------------------------------------
(* JavaResult values *)

\* &JavaResult{Path: path}: what evaluateFile returns in discovery-only mode
DiscoveredResult(path) ==
    [Path |-> path, Properties |-> Nil, StdErr |-> <<>>, ReturnCode |-> 0,
     Error |-> "nil", Evaluated |-> FALSE]

\* evaluateJava that parses the captured text whatever the subprocess ended with
evaluateJavaParseAlways(path, err, code, text) ==
    LET rc == IF err = "exit" THEN code ELSE 0
    IN [Path |-> path,
        Properties |-> Ptr(ParseJavaProperties(text)),
        StdErr |-> text,
        ReturnCode |-> rc,
        Error |-> err,
        Evaluated |-> TRUE]

\* evaluateJava on a subprocess that ended with error kind err ("nil", "exit" for
\* *exec.ExitError, "launch" for any other error), exit code code and captured
\* standard error text
evaluateJava(path, err, code, text) ==
    LET rc == IF err = "exit" THEN code ELSE 0
    IN [Path |-> path,
        Properties |-> IF err = "nil" /\ rc = 0
                       THEN Ptr(IF text \in SampleTexts THEN ParsedSamples[text]
                                ELSE ParseJavaProperties(text))
                       ELSE Nil,
        StdErr |-> text,
        ReturnCode |-> rc,
        Error |-> err,
        Evaluated |-> TRUE]

DefaultConfig ==
    [maxDepth |-> -1, evaluate |-> FALSE, jsonOutput |-> FALSE, doPost |-> FALSE,
     requireLicense |-> FALSE]

\* parseFlags, lines 373-375: <<jsonOutput, doPost>> after -post has implied -json
Outputs == { <<FALSE, FALSE>>, <<TRUE, FALSE>>, <<TRUE, TRUE>> }

---------------------------------------------------------------------------
(* License specification: createRuntimeJSON applied to one outcome *)

MaxMajor == 22

Majors == (-1)..MaxMajor
Updates == {-1, 0, 12, 13, 14, 79, 80, 81, 201, 202, 203}

Vendors ==
    { <<>>,
      OracleCorporation,
      ToLower(OracleCorporation),
      <<"O","R","A","C","L","E">>,
      <<"O","r","a","c","l">>,
      <<"S","u","n","/">> \o Oracle,
      <<"A","z","u","l">> }

RuntimeNames ==
    { <<>>,
      JavaSE \o <<" ","R","u","n","t","i","m","e">>,
      OpenJDKRuntimeEnvironment,
      openjdk,
      JavaSE \o <<" ">> \o commercial,
      JavaSE \o <<" ","C","O","M","M","E","R","C","I","A","L">>,
      <<"O","P","E","N","J","D","K"," ">> \o commercial,
      <<"C","o","m","m","e","r","c","i","a","l"," ","O","p","e","n","J","D","K">> }

LicensePath == <<"java">>

\* outcomes of a successful evaluation, by identity
IdentityResult(vendor, name, major, update) ==
    [Path |-> LicensePath,
     Properties |-> Ptr([Version |-> <<>>, Vendor |-> vendor, RuntimeName |-> name,
                         Major |-> major, Update |-> update]),
     StdErr |-> <<>>, ReturnCode |-> 0, Error |-> "nil", Evaluated |-> TRUE]

\* the variables of report assembly before handleJSONOutput or
\* handleRegularOutput has started
NoOutputYet ==
    /\ cursor = 0
    /\ output = Nil
    /\ hasOracle = FALSE
    /\ countRequireLicense = 0
    /\ report = Nil
    /\ post = Nil
    /\ stdout = <<>>

reportVars == <<cursor, output, hasOracle, countRequireLicense, report, post, stdout>>

\* no directory has been handed to the callback
NoDirCalls == [read |-> 0, pruned |-> 0, failed |-> 0]

\* the variables of the walk where no walk is modelled: Find has returned nil
NoWalk ==
    /\ root = Nil
    /\ work = <<>>
    /\ visits = <<>>
    /\ findErr = "nil"
    /\ done = 1
    /\ reporter = "exited"
    /\ ticks = 0
    /\ lateTicks = 0
    /\ hung = FALSE
    /\ dirCalls = NoDirCalls
    /\ listed = 0
    /\ candidates = {}
    /\ errs = {}

InitLicense ==
    /\ pc = "license"
    /\ runtime = Nil
    /\ scanned = 0
    /\ found = 0
    /\ NoOutputYet
    /\ NoWalk
    /\ goos = "linux"
    /\ javaOutput = <<>>
    /\ \E e \in BOOLEAN :
        /\ config = [DefaultConfig EXCEPT !.evaluate = e]
        /\ IF e
           THEN \/ \E v \in Vendors, n \in RuntimeNames, m \in Majors, u \in Updates :
                      results = <<IdentityResult(v, n, m, u)>>
                \/ results = <<evaluateJava(LicensePath, "exit", 1, <<>>)>>
                \/ results = <<evaluateJava(LicensePath, "launch", 0, <<>>)>>
           ELSE results = <<DiscoveredResult(LicensePath)>>

\* createRuntimeJSON(result, config.evaluate) on the outcome
CreateRuntime ==
    /\ pc = "license"
    /\ runtime' = Ptr(createRuntimeJSON(results[1], config.evaluate))
    /\ pc' = "license_done"
    /\ UNCHANGED <<config, goos, results, visits, scanned, found, javaOutput, reportVars,
                   walkVars>>

NextLicense == CreateRuntime

SpecLicense == InitLicense /\ [][NextLicense]_vars

\* the identity the record was built from (license specification)
LicIn == Deref(results[1].Properties)
LicHasIdentity == pc = "license_done" /\ results[1].Properties # Nil
LicVerdict == Deref(runtime).RequireLicense

---------------------------------------------------------------------------
(* report assembly: handleJSONOutput and handleRegularOutput *)

\* createMetaInfo: the modelled fields of MetaInfo (timestamp, host, user,
\* duration and path are environment data that no branch reads)
createMetaInfo(rs, dirs) ==
    [HasOracleJDK |-> FALSE,
     CountResult |-> Len(rs),
     CountRequireLicense |-> 0,
     ScannedDirs |-> dirs]

\* the license-only filter with the nil test dropped
DroppedByFilterNoNil(rt, requireLicense) ==
    requireLicense /\ rt.RequireLicense # Nil /\ ~Deref(rt.RequireLicense)

\* the test of handleJSONOutput that skips a record (continue)
DroppedByFilter(rt, requireLicense) ==
    requireLicense /\ (rt.RequireLicense = Nil \/ ~Deref(rt.RequireLicense))

IsRequired(rt) == rt.RequireLicense # Nil /\ Deref(rt.RequireLicense)

\* one line of text output
Line(kind, text, n) == [kind |-> kind, text |-> text, n |-> n]

\* printResult(result, runtime): the lines it prints; rt is Nil or a pointer
printResult(result, rt) ==
    <<Line("Java executable", result.Path, 0)>> \o
    (IF ~result.Evaluated THEN <<>>
     ELSE IF result.Error # "nil" \/ result.ReturnCode # 0
     THEN <<Line("Failed to execute", <<>>, 0)>> \o
          (IF result.ReturnCode # 0
           THEN <<Line("Exit code", <<>>, result.ReturnCode)>> ELSE <<>>)
     ELSE (IF result.Properties # Nil
           THEN << Line("Java version", Deref(result.Properties).Version, 0),
                   Line("Java vendor", Deref(result.Properties).Vendor, 0),
                   Line("Java runtime name", Deref(result.Properties).RuntimeName, 0),
                   Line("Java major version", <<>>, Deref(result.Properties).Major),
                   Line("Java update version", <<>>, Deref(result.Properties).Update) >>
           ELSE <<>>) \o
          (IF rt # Nil
           THEN (IF Deref(rt).IsOracle
                 THEN <<Line("Info: Oracle JDK/JRE detected", <<>>, 0)>> ELSE <<>>) \o
                (IF IsRequired(Deref(rt))
                 THEN <<Line("Warning: requires a commercial license", <<>>, 0)>>
                 ELSE <<Line("does not require a commercial license", <<>>, 0)>>)
           ELSE <<>>))

\* the runtime handleRegularOutput passes to printResult for one result
RegularRuntime(result, evaluate) ==
    IF Succeeded(result, evaluate)
    THEN Ptr(checkLicenseRequirement(IdentityJSON(result)))
    ELSE Nil

\* http.StatusOK
StatusOK == 200

\* what http.Post can give: an error ("connect" for *net.OpError, "other" for
\* any other), or a response with a status code and a body that may be empty
Response(err, status, hasBody) == [err |-> err, status |-> status, hasBody |-> hasBody]

Statuses == {200, 201, 204, 301, 404, 500}

Responses ==
    { Response("connect", 0, FALSE), Response("other", 0, FALSE) }
    \cup { Response("nil", st, b) : st \in Statuses, b \in BOOLEAN }

\* sendJSON that accepts every status from 200 to 299
sendJSONAny2xx(resp) ==
    IF resp.err = "connect" THEN "failed to connect"
    ELSE IF resp.err # "nil" THEN "failed to send"
    ELSE IF resp.status < 200 \/ resp.status > 299 THEN "server returned"
    ELSE "nil"

\* sendJSON(jsonData, url): the error it returns, "nil" for none
sendJSON(resp) ==
    IF resp.err = "connect" THEN "failed to connect"
    ELSE IF resp.err # "nil" THEN "failed to send"
    ELSE IF resp.status # StatusOK THEN "server returned"
    ELSE "nil"

\* handleJSONOutput, lines 435-441: the output value and the two locals
JSONBegin ==
    /\ pc = "output"
    /\ config.jsonOutput
    /\ output' = Ptr([Meta |-> createMetaInfo(results, scanned), Runtimes |-> <<>>])
    /\ hasOracle' = FALSE
    /\ countRequireLicense' = 0
    /\ cursor' = 1
    /\ pc' = "json_loop"
    /\ UNCHANGED <<config, goos, results, visits, scanned, found, runtime, javaOutput, report, post, stdout, walkVars>>

\* JSONStep with the two aggregates updated before the filter test
JSONStepCountFirst ==
    /\ pc = "json_loop"
    /\ cursor <= Len(results)
    /\ LET rt == createRuntimeJSON(results[cursor], config.evaluate)
       IN /\ hasOracle' = (hasOracle \/ rt.IsOracle)
          /\ countRequireLicense' =
                 IF IsRequired(rt) THEN countRequireLicense + 1
                 ELSE countRequireLicense
          /\ output' = IF DroppedByFilter(rt, config.requireLicense) THEN output
                       ELSE Ptr([Deref(output) EXCEPT !.Runtimes = Append(@, rt)])
    /\ cursor' = cursor + 1
    /\ UNCHANGED <<pc, config, goos, results, visits, scanned, found, runtime, javaOutput,
                   report, post, stdout, walkVars>>

\* handleJSONOutput, lines 444-460: one iteration of the loop over results
JSONStep ==
    /\ pc = "json_loop"
    /\ cursor <= Len(results)
    /\ LET rt == createRuntimeJSON(results[cursor], config.evaluate)
       IN IF DroppedByFilter(rt, config.requireLicense)
          THEN UNCHANGED <<output, hasOracle, countRequireLicense>>
          ELSE /\ hasOracle' = (hasOracle \/ rt.IsOracle)
               /\ countRequireLicense' =
                      IF IsRequired(rt) THEN countRequireLicense + 1
                      ELSE countRequireLicense
               /\ output' = Ptr([Deref(output) EXCEPT !.Runtimes = Append(@, rt)])
    /\ cursor' = cursor + 1
    /\ UNCHANGED <<pc, config, goos, results, visits, scanned, found, runtime, javaOutput, report, post, stdout, walkVars>>

\* handleJSONOutput, lines 462-481: the meta update and the emission
JSONFinish ==
    /\ pc = "json_loop"
    /\ cursor > Len(results)
    /\ LET final == [Deref(output) EXCEPT
                        !.Meta.HasOracleJDK = hasOracle,
                        !.Meta.CountRequireLicense = countRequireLicense]
       IN /\ output' = Ptr(final)
          /\ IF config.doPost
             THEN \E resp \in Responses :
                      /\ post' = Ptr([body |-> final, response |-> resp,
                                      err |-> sendJSON(resp)])
                      /\ stdout' = IF sendJSON(resp) = "nil" /\ resp.hasBody
                                   THEN Append(stdout, Line("response", <<>>, resp.status))
                                   ELSE stdout
                      /\ pc' = IF sendJSON(resp) = "nil" THEN "exit0" ELSE "exit1"
                      /\ UNCHANGED report
             ELSE /\ report' = Ptr(final)
                  /\ pc' = "exit0"
                  /\ UNCHANGED <<post, stdout>>
    /\ UNCHANGED <<config, goos, results, visits, scanned, found, runtime, javaOutput, cursor,
                   hasOracle, countRequireLicense, walkVars>>

\* main, line 546: the text branch is entered
RegularBegin ==
    /\ pc = "output"
    /\ ~config.jsonOutput
    /\ cursor' = 1
    /\ pc' = "text_loop"
    /\ UNCHANGED <<config, goos, results, visits, scanned, found, runtime, javaOutput, output, hasOracle,
                   countRequireLicense, report, post, stdout, walkVars>>

\* handleRegularOutput, lines 496-512: one iteration of the loop over results
RegularStep ==
    /\ pc = "text_loop"
    /\ cursor <= Len(results)
    /\ stdout' = stdout
            \o printResult(results[cursor], RegularRuntime(results[cursor], config.evaluate))
            \o <<Line("", <<>>, 0)>>
    /\ cursor' = cursor + 1
    /\ UNCHANGED <<pc, config, goos, results, visits, scanned, found, runtime, javaOutput, output, hasOracle,
                   countRequireLicense, report, post, walkVars>>

\* handleRegularOutput returns and main ends
RegularFinish ==
    /\ pc = "text_loop"
    /\ cursor > Len(results)
    /\ pc' = "exit0"
    /\ UNCHANGED <<config, goos, results, visits, scanned, found, runtime, javaOutput, reportVars, walkVars>>

---------------------------------------------------------------------------
(* Report specification: the output phase of main on the outcomes of a scan *)

MaxResults == 3

\* what a launched subprocess can end with: <<error kind, exit code, stderr>>
ProcessOutcomes ==
    { <<"nil", 0, TextOracle8u211>>,
      <<"nil", 0, TextOracle8u202>>,
      <<"nil", 0, TextOpenJDK17>>,
      <<"nil", 0, TextNoKeys>>,
      <<"exit", 1, TextNoKeys>>,
      <<"launch", 0, <<>>>> }

\* the path of the k-th candidate of a scan of root/java, root/d/java, ...
NestedPath(k) == [i \in 1..(k - 1) |-> "d"] \o <<"java">>

\* the outcome sequences of n candidates
ResultSeqs(n, evaluate) ==
    IF evaluate
    THEN { [k \in 1..n |-> evaluateJava(NestedPath(k), o[k][1], o[k][2], o[k][3])] :
               o \in [1..n -> ProcessOutcomes] }
    ELSE { [k \in 1..n |-> DiscoveredResult(NestedPath(k))] }

InitReport ==
    /\ pc = "output"
    /\ runtime = Nil
    /\ NoOutputYet
    /\ NoWalk
    /\ goos = "linux"
    /\ javaOutput = <<>>
    /\ \E e \in BOOLEAN, j \in Outputs, r \in BOOLEAN :
           config = [DefaultConfig EXCEPT
                        !.evaluate = e, !.jsonOutput = j[1], !.doPost = j[2],
                        !.requireLicense = r]
    /\ \E n \in 0..MaxResults :
        /\ results \in ResultSeqs(n, config.evaluate)
        /\ found = n
        /\ scanned = IF n = 0 THEN 1 ELSE n

NextReport ==
    \/ JSONBegin
    \/ JSONStep
    \/ JSONFinish
    \/ RegularBegin
    \/ RegularStep
    \/ RegularFinish

SpecReport == InitReport /\ [][NextReport]_vars

---------------------------------------------------------------------------
(* discovery walk: JavaFinder.Find over filepath.Walk *)

\* Paths are relative to the start path: the sequence of names below it, <<>>
\* for the start path itself.  A walk entry carries what os.Lstat says about the
\* path: lstat is "ok", "perm" (permission denied) or "io" (any other error);
\* isDir and exec (the classes of the mode bits 0111 that are set) are read only
\* when lstat is "ok".
Entry(path, name, lstat, isDir, exec) ==
    [path |-> path, name |-> name, lstat |-> lstat, isDir |-> isDir, exec |-> exec]

\* runtime.GOOS
GOOS == goos

\* isExecutable(info)
isExecutable(info) ==
    IF GOOS = "windows" THEN ~info.isDir ELSE info.exec # {}

\* isJavaExecutable that folds the case of the name and takes both spellings on
\* every platform
isJavaExecutableFolded(name) ==
    name \in {"java", "Java", "JAVA", "java.exe", "JAVA.EXE"}

\* isJavaExecutable(name)
isJavaExecutable(name) ==
    IF GOOS = "windows" THEN name = "java.exe" ELSE name = "java"

\* getPathDepth(path): filepath.Rel gives "." for the start path and the names
\* below it otherwise
getPathDepth(path) == IF path = <<>> THEN 0 ELSE Len(path)

\* the path is not beyond the depth limit of the run
WithinDepth(path) == config.maxDepth < 0 \/ Len(path) <= config.maxDepth

\* the test of evaluateFile; info is read only when lstat succeeded
IsCandidate(e) ==
    e.lstat = "ok" /\ ~e.isDir /\ isJavaExecutable(e.name) /\ isExecutable(e)

\* the subprocess outcome where no subprocess is run
NoProcess == <<"nil", 0, <<>>>>

\* a subprocess that never exits
NeverExits == <<"hang", 0, <<>>>>

\* cmd.Run with a time limit: it gives an error back when the subprocess has
\* not exited in time
CmdRunReturnsInTime(o) == TRUE

\* cmd.Run (evaluateJava, line 146) returns only when the subprocess has exited
\* or could not be started
CmdRunReturns(o) == o # NeverExits

\* evaluateFile with the evaluate flag ignored: every candidate is run
evaluateFileAlways(e, evaluate, o) ==
    IF e.lstat # "ok" THEN Nil
    ELSE IF ~e.isDir /\ isJavaExecutable(e.name) /\ isExecutable(e)
    THEN Ptr(evaluateJava(e.path, o[1], o[2], o[3]))
    ELSE Nil

\* evaluateFile that gives nothing back for a candidate whose subprocess failed
evaluateFileDropFailed(e, evaluate, o) ==
    IF e.lstat # "ok" THEN Nil
    ELSE IF ~e.isDir /\ isJavaExecutable(e.name) /\ isExecutable(e)
    THEN (IF ~evaluate THEN Ptr(DiscoveredResult(e.path))
          ELSE IF o[1] = "nil" THEN Ptr(evaluateJava(e.path, o[1], o[2], o[3]))
          ELSE Nil)
    ELSE Nil

\* evaluateFile(path, info): nil or a pointer to the outcome; info is nil when
\* lstat failed, o is what the subprocess ends with when one is run
evaluateFile(e, evaluate, o) ==
    IF e.lstat # "ok" THEN Nil
    ELSE IF ~e.isDir /\ isJavaExecutable(e.name) /\ isExecutable(e)
    THEN (IF evaluate THEN Ptr(evaluateJava(e.path, o[1], o[2], o[3]))
          ELSE Ptr(DiscoveredResult(e.path)))
    ELSE Nil

\* handleDirectory that hands every error but permission denied back to the walk
handleDirectoryStrict(path, isDir, err, maxDepth) ==
    IF err # "nil"
    THEN (IF err = "perm" THEN "SkipDir" ELSE err)
    ELSE IF maxDepth >= 0 /\ getPathDepth(path) > maxDepth
    THEN (IF isDir THEN "SkipDir" ELSE "nil")
    ELSE "nil"

\* handleDirectory(path, info, err): the value it returns, "nil", "SkipDir" or
\* an error
handleDirectory(path, isDir, err, maxDepth) ==
    IF err # "nil"
    THEN (IF err = "perm" THEN "SkipDir" ELSE "nil")
    ELSE IF maxDepth >= 0 /\ getPathDepth(path) > maxDepth
    THEN (IF isDir THEN "SkipDir" ELSE "nil")
    ELSE "nil"

\* handleDirectory that counts a directory after the depth test
CountsDirectoryWithinDepth(path, isDir, err, maxDepth) ==
    err = "nil" /\ isDir /\ ~(maxDepth >= 0 /\ getPathDepth(path) > maxDepth)

\* handleDirectory that counts a directory before it looks at the error
CountsDirectoryTried(path, isDir, err, maxDepth) == isDir

\* handleDirectory: whether it reaches f.scanned.Add(1)
CountsDirectory(path, isDir, err, maxDepth) == err = "nil" /\ isDir

Parent(path) == SubSeq(path, 1, Len(path) - 1)

RECURSIVE DropSiblings(_, _)
\* the pending entries without the leading ones that lie in directory dir
DropSiblings(w, dir) ==
    IF w # <<>> /\ Head(w).path # <<>> /\ Parent(Head(w).path) = dir
    THEN DropSiblings(Tail(w), dir)
    ELSE w

\* RestOfWalk that queues the entries of a directory behind the pending ones
RestOfWalkBreadthFirst(ret, e, children, rest) ==
    IF ret = "nil" THEN rest \o children
    ELSE IF ret = "SkipDir"
    THEN (IF e.lstat = "ok" /\ ~e.isDir /\ e.path # <<>>
          THEN DropSiblings(rest, Parent(e.path))
          ELSE rest)
    ELSE <<>>

\* filepath.Walk after the callback returned ret for entry e: what is left to
\* visit.  children are the entries of e when e is a directory that was read.
\* SkipDir from a directory or from an entry whose lstat failed goes on with the
\* next sibling; SkipDir from a file skips the rest of its directory; any other
\* error ends the walk.
RestOfWalk(ret, e, children, rest) ==
    IF ret = "nil" THEN children \o rest
    ELSE IF ret = "SkipDir"
    THEN (IF e.lstat = "ok" /\ ~e.isDir /\ e.path # <<>>
          THEN DropSiblings(rest, Parent(e.path))
          ELSE rest)
    ELSE <<>>

\* the error filepath.Walk returns when the callback returned ret
WalkError(ret) == IF ret \in {"nil", "SkipDir"} THEN "nil" ELSE ret

MaxTreeDepth == 2
MaxEntries == 3
MaxTicks == 1

Names == <<".git", "d", "java">>

Absent == Entry(<<>>, "", "absent", FALSE, {})

\* what a directory can hold under each name (names come back sorted)
NameOptions(name) ==
    CASE name = ".git" -> { Absent, Entry(<<>>, name, "ok", TRUE, {}) }
      [] name = "d" -> { Absent, Entry(<<>>, name, "ok", TRUE, {}),
                         Entry(<<>>, name, "perm", FALSE, {}),
                         Entry(<<>>, name, "io", FALSE, {}) }
      [] name = "java" -> { Absent, Entry(<<>>, name, "ok", FALSE, {"u", "g", "o"}),
                            Entry(<<>>, name, "ok", FALSE, {}),
                            Entry(<<>>, name, "io", FALSE, {}) }

\* the listings readDirNames can give for the directory at path dir
Listings(dir) ==
    IF Len(dir) >= MaxTreeDepth THEN { <<>> }
    ELSE { SelectSeq([i \in DOMAIN Names |->
                         [pick[i] EXCEPT !.path = Append(dir, Names[i])]],
                     LAMBDA e : e.lstat # "absent") :
               pick \in { f \in [DOMAIN Names -> UNION { NameOptions(Names[i]) : i \in DOMAIN Names }] :
                              \A i \in DOMAIN Names : f[i] \in NameOptions(Names[i]) } }

\* what the start path can be
Roots ==
    { Entry(<<>>, "start", "missing", FALSE, {}),
      Entry(<<>>, "start", "ok", TRUE, {}),
      Entry(<<>>, "start", "ok", FALSE, {}),
      Entry(<<>>, "java", "ok", FALSE, {"u", "g", "o"}) }

\* the subprocess outcomes used during a walk
WalkOutcomes == { <<"nil", 0, TextOracle8u211>>, <<"exit", 1, TextNoKeys>> }

\* main, lines 525-529: os.Stat on the start path
MainStat ==
    /\ pc = "main"
    /\ pc' = IF root.lstat = "missing" THEN "exit1" ELSE "find"
    /\ UNCHANGED <<config, goos, results, visits, scanned, found, runtime, javaOutput, reportVars, walkVars>>

\* Find, lines 273-282, and the os.Lstat of filepath.Walk on the start path
FindStart ==
    /\ pc = "find"
    /\ scanned' = 0
    /\ found' = 0
    /\ results' = <<>>
    /\ visits' = <<>>
    /\ work' = <<root>>
    /\ reporter' = "running"
    /\ pc' = "walk"
    /\ UNCHANGED <<config, goos, runtime, javaOutput, reportVars, root, findErr, done, ticks, lateTicks, hung, dirCalls, listed,
                   candidates, errs>>

\* the callback on an entry whose lstat failed (info is nil)
VisitUnreadable ==
    /\ pc = "walk" /\ work # <<>>
    /\ Head(work).lstat # "ok"
    /\ LET e == Head(work)
           ret == handleDirectory(e.path, FALSE, e.lstat, config.maxDepth)
       IN /\ work' = RestOfWalk(ret, e, <<>>, Tail(work))
          /\ findErr' = WalkError(ret)
          /\ errs' = errs \cup {<<e.path, e.lstat>>}
    /\ UNCHANGED <<pc, config, goos, results, visits, scanned, found, runtime, javaOutput, reportVars, root,
                   done, reporter, ticks, lateTicks, hung, dirCalls, listed, candidates>>

\* the callback on a file that counts a candidate as found only when its
\* outcome has no error
VisitFileCountsRunnable ==
    /\ pc = "walk" /\ work # <<>>
    /\ Head(work).lstat = "ok" /\ ~Head(work).isDir
    /\ LET e == Head(work)
           hd == handleDirectory(e.path, FALSE, "nil", config.maxDepth)
           runs == hd = "nil" /\ IsCandidate(e) /\ config.evaluate
       IN \E o \in (IF runs THEN WalkOutcomes \cup { NeverExits } ELSE { NoProcess }) :
            /\ hung' = (hung \/ o = NeverExits)
            /\ IF CmdRunReturns(o)
               THEN /\ LET result == IF hd = "nil" THEN evaluateFile(e, config.evaluate, o)
                                     ELSE Nil
                       IN IF result # Nil
                          THEN /\ results' = Append(results, Deref(result))
                               /\ found' = IF Deref(result).Error = "nil" THEN found + 1 ELSE found
                               /\ visits' = Append(visits,
                                                [path |-> e.path, launched |-> runs,
                                                 err |-> o[1], code |-> o[2]])
                          ELSE UNCHANGED <<results, visits, found>>
                    /\ work' = RestOfWalk(hd, e, <<>>, Tail(work))
                    /\ findErr' = WalkError(hd)
                    /\ pc' = pc
               ELSE /\ pc' = "cmd.Run"
                    /\ UNCHANGED <<results, visits, found, work, findErr>>
    /\ UNCHANGED <<config, goos, scanned, runtime, javaOutput, reportVars, root, done, reporter,
                   ticks, lateTicks, dirCalls, listed, candidates, errs>>

\* the callback on a file: handleDirectory, then evaluateFile with the
\* subprocess run to its end when the file is a candidate and evaluate is set.
\* While the subprocess has not exited the walk stays inside cmd.Run.
VisitFile ==
    /\ pc = "walk" /\ work # <<>>
    /\ Head(work).lstat = "ok" /\ ~Head(work).isDir
    /\ LET e == Head(work)
           hd == handleDirectory(e.path, FALSE, "nil", config.maxDepth)
           runs == hd = "nil" /\ IsCandidate(e) /\ config.evaluate
       IN \E o \in (IF runs THEN WalkOutcomes \cup { NeverExits } ELSE { NoProcess }) :
            /\ hung' = (hung \/ o = NeverExits)
            /\ IF CmdRunReturns(o)
               THEN /\ LET result == IF hd = "nil" THEN evaluateFile(e, config.evaluate, o)
                                     ELSE Nil
                       IN IF result # Nil
                          THEN /\ results' = Append(results, Deref(result))
                               /\ found' = found + 1
                               /\ visits' = Append(visits,
                                                [path |-> e.path, launched |-> runs,
                                                 err |-> o[1], code |-> o[2]])
                          ELSE UNCHANGED <<results, visits, found>>
                    /\ work' = RestOfWalk(hd, e, <<>>, Tail(work))
                    /\ findErr' = WalkError(hd)
                    /\ pc' = pc
               ELSE /\ pc' = "cmd.Run"
                    /\ UNCHANGED <<results, visits, found, work, findErr>>
    /\ UNCHANGED <<config, goos, scanned, runtime, javaOutput, reportVars, root, done, reporter,
                   ticks, lateTicks, dirCalls, listed, candidates, errs>>

\* the callback on a directory: filepath.Walk reads the names first and hands
\* the read error, if any, to the callback
VisitDir ==
    /\ pc = "walk" /\ work # <<>>
    /\ Head(work).lstat = "ok" /\ Head(work).isDir
    /\ LET e == Head(work)
       IN \E err \in {"nil", "perm", "io"} :
          \E children \in (IF err = "nil" THEN Listings(e.path) ELSE { <<>> }) :
            LET ret == handleDirectory(e.path, TRUE, err, config.maxDepth)
            IN /\ listed + Len(children) <= MaxEntries
               /\ listed' = listed + Len(children)
               /\ scanned' = IF CountsDirectory(e.path, TRUE, err, config.maxDepth) THEN scanned + 1 ELSE scanned
               /\ work' = RestOfWalk(ret, e, children, Tail(work))
               /\ findErr' = WalkError(ret)
               /\ errs' = IF err = "nil" THEN errs ELSE errs \cup {<<e.path, err>>}
               /\ dirCalls' =
                      [read |-> dirCalls.read + (IF err = "nil" THEN 1 ELSE 0),
                       pruned |-> dirCalls.pruned
                                  + (IF err = "nil" /\ ~WithinDepth(e.path) THEN 1 ELSE 0),
                       failed |-> dirCalls.failed + (IF err = "nil" THEN 0 ELSE 1)]
               /\ candidates' = candidates \cup
                      { children[i].path : i \in { k \in DOMAIN children : IsCandidate(children[k]) } }
    /\ UNCHANGED <<pc, config, goos, results, visits, found, runtime, javaOutput, reportVars, root, done,
                   reporter, ticks, lateTicks, hung>>

\* a Find that closes done and returns while entries are still to be visited
FindReturnEarly ==
    /\ pc = "walk"
    /\ done' = done + 1
    /\ pc' = "returned"
    /\ UNCHANGED <<config, goos, results, visits, scanned, found, runtime, javaOutput, reportVars, root, work,
                   findErr, reporter, ticks, lateTicks, hung, dirCalls, listed, candidates, errs>>

\* Find, lines 299-300: the walk is over, done is closed and Find returns
FindReturn ==
    /\ pc = "walk" /\ work = <<>>
    /\ done' = done + 1
    /\ pc' = "returned"
    /\ UNCHANGED <<config, goos, results, visits, scanned, found, runtime, javaOutput, reportVars, root, work,
                   findErr, reporter, ticks, lateTicks, hung, dirCalls, listed, candidates, errs>>

Exited == pc \in {"exit0", "exit1"}

\* a reporter that reports what was scanned since its last line and sets the
\* counter back
ReporterTickResets ==
    /\ reporter = "running"
    /\ ~Exited
    /\ ticks < MaxTicks
    /\ ticks' = ticks + 1
    /\ lateTicks' = IF done > 0 THEN lateTicks + 1 ELSE lateTicks
    /\ scanned' = 0
    /\ UNCHANGED <<pc, config, goos, results, visits, found, runtime, javaOutput,
                   reportVars, root, work, findErr, done, reporter, hung, dirCalls, listed,
                   candidates, errs>>

\* startProgressReporting, the ticker case of the select: the reporter loads the
\* two counters and writes one status line.  The select may take this case
\* whenever the ticker has fired, also when done is closed already.
ReporterTick ==
    /\ reporter = "running"
    /\ ~Exited
    /\ ticks < MaxTicks
    /\ ticks' = ticks + 1
    /\ lateTicks' = IF done > 0 THEN lateTicks + 1 ELSE lateTicks
    /\ UNCHANGED <<pc, config, goos, results, visits, scanned, found, runtime, javaOutput,
                   reportVars, root, work, findErr, done, reporter, hung, dirCalls, listed, candidates,
                   errs>>

\* startProgressReporting, the done case of the select: the goroutine returns
ReporterExit ==
    /\ reporter = "running"
    /\ ~Exited
    /\ done > 0
    /\ reporter' = "exited"
    /\ UNCHANGED <<pc, config, goos, results, visits, scanned, found, runtime, javaOutput, reportVars, root,
                   work, findErr, done, ticks, lateTicks, hung, dirCalls, listed, candidates, errs>>

\* main, lines 535-538: an error of Find ends the run
MainAfterFind ==
    /\ pc = "returned"
    /\ pc' = IF findErr # "nil" THEN "exit1" ELSE "output"
    /\ UNCHANGED <<config, goos, results, visits, scanned, found, runtime, javaOutput, reportVars, walkVars>>

MaxDepths == (-1)..MaxTreeDepth

\* the runs that print their report (delivery by -post is explored on the
\* outcomes of a scan, in the report specification)
PrintedOutputs == { o \in Outputs : ~o[2] }

Init ==
    /\ pc = "main"
    /\ root \in Roots
    /\ goos = "linux"
    /\ javaOutput = <<>>
    /\ \E d \in MaxDepths, e \in BOOLEAN, j \in PrintedOutputs, r \in BOOLEAN :
           config = [maxDepth |-> d, evaluate |-> e, jsonOutput |-> j[1],
                     doPost |-> j[2], requireLicense |-> r]
    /\ results = <<>>
    /\ visits = <<>>
    /\ scanned = 0
    /\ found = 0
    /\ runtime = Nil
    /\ NoOutputYet
    /\ work = <<>>
    /\ findErr = "nil"
    /\ done = 0
    /\ reporter = "idle"
    /\ ticks = 0
    /\ lateTicks = 0
    /\ hung = FALSE
    /\ dirCalls = NoDirCalls
    /\ listed = 0
    /\ candidates = IF IsCandidate(root) THEN { <<>> } ELSE {}
    /\ errs = {}

Next ==
    \/ MainStat
    \/ FindStart
    \/ VisitUnreadable
    \/ VisitFile
    \/ VisitDir
    \/ FindReturn
    \/ ReporterTick
    \/ ReporterExit
    \/ MainAfterFind
    \/ JSONBegin
    \/ JSONStep
    \/ JSONFinish
    \/ RegularBegin
    \/ RegularStep
    \/ RegularFinish

Spec == Init /\ [][Next]_vars

---------------------------------------------------------------------------
(* Scheduling specification: the run under fair scheduling of its two
   goroutines *)

\* the scans of the fair specification: unlimited or limited depth, printed
\* output, no license-only filter
InitLive ==
    /\ Init
    /\ config.maxDepth \in {-1, 1}
    /\ ~config.requireLicense

\* the steps of the main goroutine up to the return of Find
Walk ==
    \/ MainStat
    \/ FindStart
    \/ VisitUnreadable
    \/ VisitFile
    \/ VisitDir
    \/ FindReturn
    \/ MainAfterFind

\* the main goroutine runs whenever it can take a step; a call of cmd.Run
\* returns when its subprocess has exited.  Nothing is assumed about the speed
\* of the output phase.
MainFairness == WF_vars(Walk)

\* the select of the reporter takes a case that stays ready; the ticker is
\* under no obligation to fire
ReporterFairness == WF_vars(ReporterExit)

SpecLive == InitLive /\ [][Next]_vars /\ MainFairness /\ ReporterFairness

---------------------------------------------------------------------------
(* Parser specification: evaluateJava on a subprocess that wrote property lines
   to standard error *)

MaxLines == 2

CRLF == <<"\r", "\n">>
Pad4 == <<" ", " ", " ", " ">>
Tab == <<"\t">>

\* decimal notation of a natural number, as java writes version components
RECURSIVE Itoa(_)
Itoa(n) ==
    IF n < 10 THEN <<Digits[n + 1]>>
    ELSE Itoa(n \div 10) \o <<Digits[(n % 10) + 1]>>

\* a version of one of the two schemes: legacy 1.<major>.0_<update> (or without
\* the underscore part), modern <major>.<minor>.<update> cut after parts components
Version(scheme, major, update, parts) ==
    [scheme |-> scheme, major |-> major, update |-> update, parts |-> parts]

VersionText(v) ==
    IF v.scheme = "legacy"
    THEN <<"1", ".">> \o Itoa(v.major) \o <<".", "0">>
         \o (IF v.parts = 4 THEN <<"_">> \o Itoa(v.update) ELSE <<>>)
    ELSE Itoa(v.major)
         \o (IF v.parts >= 2 THEN <<".", "0">> ELSE <<>>)
         \o (IF v.parts >= 3 THEN <<".">> \o Itoa(v.update) ELSE <<>>)

VersionUpdates == {0, 5, 13, 20, 80, 202}

Versions ==
    { Version("legacy", m, u, 4) : m \in {5, 6, 7, 8}, u \in VersionUpdates }
    \cup { Version("legacy", m, 0, 3) : m \in {5, 6, 7, 8} }
    \cup { Version("modern", m, u, 3) : m \in {9, 10, 11, 17, 21}, u \in VersionUpdates }
    \cup { Version("modern", m, 0, k) : m \in {9, 10, 11, 17, 21}, k \in {1, 2} }

\* one line the subprocess wrote: pre key l = r value post eol, or text without
\* "=" (eq false, the text in key); ver is the version the value was written
\* from, if any
WrittenLine(pre, key, l, r, value, trail, eol, eq, ver) ==
    [pre |-> pre, key |-> key, l |-> l, r |-> r, value |-> value, post |-> trail,
     eol |-> eol, eq |-> eq, ver |-> ver]

LineText(w) ==
    w.pre \o w.key \o (IF w.eq THEN w.l \o <<"=">> \o w.r \o w.value ELSE <<>>)
    \o w.post \o w.eol

RECURSIVE OutputText(_)
OutputText(ws) == IF ws = <<>> THEN <<>> ELSE LineText(Head(ws)) \o OutputText(Tail(ws))

VersionLine(v) ==
    WrittenLine(Pad4, KeyVersion, <<" ">>, <<" ">>, VersionText(v), <<>>, NL, TRUE, Ptr(v))

Linux == <<"L","i","n","u","x">>

PropertyLines ==
    { VersionLine(Version("modern", 11, 20, 3)),
      WrittenLine(<<>>, KeyVersion, <<>>, <<>>, VersionText(Version("legacy", 8, 202, 4)),
                  <<>>, CRLF, TRUE, Ptr(Version("legacy", 8, 202, 4))),
      WrittenLine(<<>>, KeyVersion, <<" ">>, <<>>, <<>>, <<>>, NL, TRUE, Nil),
      WrittenLine(Pad4, KeyVendor, <<" ">>, <<" ">>, OracleCorporation, <<>>, NL, TRUE, Nil),
      WrittenLine(Tab, KeyVendor, Tab, <<" ">>, <<"A","z","u","l">>, <<" ", " ">>, NL,
                  TRUE, Nil),
      WrittenLine(<<>>, KeyVendor, <<" ">>, <<" ">>, <<"a","=","b">>, <<>>, NL, TRUE, Nil),
      WrittenLine(Pad4, KeyRuntimeName, <<" ">>, <<" ">>, OpenJDKRuntimeEnvironment, <<>>,
                  CRLF, TRUE, Nil),
      WrittenLine(Pad4, <<"o","s",".","n","a","m","e">>, <<" ">>, <<" ">>, Linux, <<>>, NL,
                  TRUE, Nil),
      WrittenLine(Pad4, KeyVersion \o <<".","d","a","t","e">>, <<" ">>, <<" ">>,
                  <<"2","0","2","4">>, <<>>, NL, TRUE, Nil),
      WrittenLine(<<>>, <<"J","a","v","a",".","V","e","r","s","i","o","n">>, <<" ">>,
                  <<" ">>, <<"1","7">>, <<>>, NL, TRUE, Nil),
      WrittenLine(<<>>, <<>>, <<>>, <<" ">>, <<"1","7">>, <<>>, NL, TRUE, Nil),
      WrittenLine(<<>>, <<"P","r","o","p","e","r","t","y"," ","s","e","t","t","i","n","g","s",":">>,
                  <<>>, <<>>, <<>>, <<>>, NL, FALSE, Nil),
      WrittenLine(<<>>, KeyVersion \o <<" ","2","1">>, <<>>, <<>>, <<>>, <<>>, NL, FALSE, Nil),
      WrittenLine(Pad4, <<>>, <<>>, <<>>, <<>>, <<>>, NL, FALSE, Nil) }

\* lines that end the output without a line terminator
LastLines ==
    { WrittenLine(Pad4, KeyVersion, <<" ">>, <<" ">>, VersionText(Version("modern", 21, 5, 3)),
                  <<>>, <<>>, TRUE, Ptr(Version("modern", 21, 5, 3))) }

\* a version text that does not follow either scheme, with the components the
\* parser is to read as major and update (update Nil: the text has none)
OddVersion(text, major, update) == [text |-> text, major |-> major, update |-> update]

OddVersions ==
    { OddVersion(<<"1",".","8",".","0","_","2","0","2","-","b","0","8">>,
                 <<"8">>, Ptr(<<"2","0","2","-","b","0","8">>)),
      OddVersion(<<"1","7",".","0",".","1","3","+","1","1">>,
                 <<"1","7">>, Ptr(<<"1","3","+","1","1">>)),
      OddVersion(<<"1",".","x",".","0","_","5">>,
                 <<"x">>, Ptr(<<"5">>)),
      OddVersion(<<"2","1",".","0",".","x">>,
                 <<"2","1">>, Ptr(<<"x">>)),
      OddVersion(<<"1","7","-","e","a">>,
                 <<"1","7","-","e","a">>, Nil),
      OddVersion(<<"a","b","c">>,
                 <<"a","b","c">>, Nil),
      OddVersion(<<"1",".","8",".","0","_">>,
                 <<"8">>, Ptr(<<>>)),
      OddVersion(<<"1",".">>,
                 <<>>, Nil),
      OddVersion(<<"1","7",".","0",".","+","5">>,
                 <<"1","7">>, Ptr(<<"+","5">>)),
      OddVersion(<<"1",".","8",".","0","_","-","5">>,
                 <<"8">>, Ptr(<<"-","5">>)),
      OddVersion(<<"1",".","8",".","0","_","2","0","_","1">>,
                 <<"8">>, Ptr(<<"2","0","_","1">>)),
      OddVersion(<<".","0",".","7">>,
                 <<>>, Ptr(<<"7">>)),
      OddVersion(<<"1","1",".","0",".">>,
                 <<"1","1">>, Ptr(<<>>)) }

OddVersionLine(o) ==
    WrittenLine(Pad4, KeyVersion, <<" ">>, <<" ">>, o.text, <<>>, NL, TRUE, Nil)

\* what the subprocess can have written: up to MaxLines lines, the last one
\* with or without terminator, or one java.version line
Outputs4Parser ==
    UNION { [1..n -> PropertyLines] : n \in 0..MaxLines }
    \cup { Append(ws, w) : ws \in UNION { [1..n -> PropertyLines] : n \in 0..(MaxLines - 1) },
                           w \in LastLines }
    \cup { <<VersionLine(v)>> : v \in Versions }
    \cup { <<OddVersionLine(o)>> : o \in OddVersions }

InitParse ==
    /\ pc = "evaluate"
    /\ goos = "linux"
    /\ config = [DefaultConfig EXCEPT !.evaluate = TRUE]
    /\ javaOutput \in Outputs4Parser
    /\ results = <<>>
    /\ scanned = 0
    /\ found = 0
    /\ runtime = Nil
    /\ NoOutputYet
    /\ NoWalk

\* what cmd.Run can end with: <<error kind, exit code>>; the exit code of
\* *exec.ExitError is -1 when a signal ended the subprocess
ExitStatuses == { <<"nil", 0>>, <<"exit", 1>>, <<"exit", 2>>, <<"exit", -1>>, <<"launch", 0>> }

\* evaluateJava(javaPath) on that subprocess
EvaluateJava ==
    /\ pc = "evaluate"
    /\ \E x \in ExitStatuses :
           /\ results' = <<evaluateJava(LicensePath, x[1], x[2], OutputText(javaOutput))>>
           /\ visits' = <<[path |-> LicensePath, launched |-> TRUE, err |-> x[1],
                           code |-> x[2]]>>
    /\ pc' = "evaluate_done"
    /\ UNCHANGED <<config, goos, scanned, found, runtime, javaOutput, reportVars, root, work,
                   findErr, done, reporter, ticks, lateTicks, hung, dirCalls, listed,
                   candidates, errs>>

NextParse == EvaluateJava

SpecParse == InitParse /\ [][NextParse]_vars

---------------------------------------------------------------------------
(* Candidate specification: evaluateFile applied to one visited entry *)

Platforms == {"linux", "darwin", "windows"}
CandidateNames == {"java", "Java", "JAVA", "java.exe", "JAVA.EXE", "javac", "d"}
ModeBits == SUBSET {"u", "g", "o"}

\* what filepath.Walk can hand to the callback for one name: an entry with its
\* FileInfo, or a failed lstat (info is nil)
VisitedEntries ==
    { Entry(<<n>>, n, "ok", d, x) : n \in CandidateNames, d \in BOOLEAN, x \in ModeBits }
    \cup { Entry(<<n>>, n, "io", FALSE, {}) : n \in CandidateNames }

InitCandidate ==
    /\ pc = "candidate"
    /\ goos \in Platforms
    /\ \E e \in BOOLEAN : config = [DefaultConfig EXCEPT !.evaluate = e]
    /\ \E v \in VisitedEntries : work = <<v>>
    /\ results = <<>>
    /\ visits = <<>>
    /\ scanned = 0
    /\ found = 0
    /\ runtime = Nil
    /\ javaOutput = <<>>
    /\ NoOutputYet
    /\ root = Nil
    /\ findErr = "nil"
    /\ done = 0
    /\ reporter = "idle"
    /\ ticks = 0
    /\ lateTicks = 0
    /\ hung = FALSE
    /\ dirCalls = NoDirCalls
    /\ listed = 0
    /\ candidates = {}
    /\ errs = {}

\* evaluateFile(path, info) on the entry, with the subprocess run to its end
EvaluateFile ==
    /\ pc = "candidate"
    /\ LET e == Head(work)
           runs == IsCandidate(e) /\ config.evaluate
       IN \E o \in (IF runs THEN WalkOutcomes ELSE { NoProcess }) :
              LET result == evaluateFile(e, config.evaluate, o)
              IN results' = IF result # Nil THEN <<Deref(result)>> ELSE <<>>
    /\ pc' = "candidate_done"
    /\ UNCHANGED <<config, goos, visits, scanned, found, runtime, javaOutput, reportVars,
                   walkVars>>

NextCandidate == EvaluateFile

SpecCandidate == InitCandidate /\ [][NextCandidate]_vars

---------------------------------------------------------------------------
(* Claims about the license rule engine (SpecLicense) *)

\* the version table as documented: major 7 -> update > 80, major 8 -> update >
\* 202, major 11 -> always, major 17 -> update >= 13, 18..20 and >= 21 -> never,
\* anything else -> always
VersionRule(major, update) ==
    CASE major = 7 -> update > 80
      [] major = 8 -> update > 202
      [] major = 11 -> TRUE
      [] major = 17 -> update >= 13
      [] major \in 18..20 -> FALSE
      [] major >= 21 -> FALSE
      [] OTHER -> TRUE

NameHas(word) == Contains(ToLower(LicIn.RuntimeName), word)

\* C5: for an identity whose vendor contains "Oracle" and whose runtime-name
\* contains neither "openjdk" nor "commercial" (any case), the verdict is set and
\* is the one the version table gives for (major, update).
C5_VersionRules ==
    (LicHasIdentity /\ Contains(LicIn.Vendor, Oracle)
        /\ ~NameHas(openjdk) /\ ~NameHas(commercial))
    => LicVerdict = Ptr(VersionRule(LicIn.Major, LicIn.Update))

\* C5 witness: Oracle JDK 8 update 203 with a plain runtime name was classified
\* as requiring a license.
C5_Witness ==
    /\ LicHasIdentity /\ Contains(LicIn.Vendor, Oracle)
    /\ LicIn.RuntimeName # <<>> /\ ~NameHas(openjdk) /\ ~NameHas(commercial)
    /\ LicIn.Major = 8 /\ LicIn.Update = 203
    /\ LicVerdict = Ptr(TRUE)

\* C6: for an Oracle vendor, a runtime-name containing "openjdk" (any case) gives
\* not-required for every major/update, also when the name contains "commercial";
\* otherwise a name containing "commercial" (any case) gives required for every
\* major/update.
C6_Precedence ==
    (LicHasIdentity /\ Contains(LicIn.Vendor, Oracle))
    => /\ NameHas(openjdk) => LicVerdict = Ptr(FALSE)
       /\ (~NameHas(openjdk) /\ NameHas(commercial)) => LicVerdict = Ptr(TRUE)

\* C6 witness: an Oracle record whose runtime name has both words, on major 11
\* (which the version table charges for), was classified not-required.
C6_Witness ==
    /\ LicHasIdentity /\ Contains(LicIn.Vendor, Oracle)
    /\ NameHas(openjdk) /\ NameHas(commercial)
    /\ LicIn.Major = 11
    /\ LicVerdict = Ptr(FALSE)

\* C7: the record carries a verdict exactly when its vendor string contains
\* "Oracle" (case-sensitive), and a verdict that is present is a boolean.
C7_VerdictIffOracle ==
    pc = "license_done"
    => /\ (LicVerdict # Nil) <=> Contains(Deref(runtime).JavaVendor, Oracle)
       /\ LicVerdict \in {Nil, Ptr(TRUE), Ptr(FALSE)}
       /\ (results[1].Properties # Nil /\ ~Contains(LicIn.Vendor, Oracle))
            => LicVerdict = Nil
       /\ (results[1].Properties # Nil /\ Contains(LicIn.Vendor, Oracle))
            => LicVerdict # Nil

\* C7 witness: a lower-case "oracle corporation" vendor with a commercial runtime
\* name got no verdict.
C7_Witness ==
    /\ LicHasIdentity
    /\ LicIn.Vendor = ToLower(OracleCorporation)
    /\ NameHas(commercial)
    /\ LicVerdict = Nil

---------------------------------------------------------------------------
(* Claims about report assembly (SpecReport) *)

\* the record of the k-th outcome and whether its verdict is "required"
RecordOf(k) == createRuntimeJSON(results[k], config.evaluate)
RequiredAt(k) == RecordOf(k).RequireLicense = Ptr(TRUE)

RECURSIVE KeptRecords(_)
\* the records of the first n outcomes whose verdict is "required", in order
KeptRecords(n) ==
    IF n = 0 THEN <<>>
    ELSE IF RequiredAt(n) THEN Append(KeptRecords(n - 1), RecordOf(n))
    ELSE KeptRecords(n - 1)

\* C1: in the report written by handleJSONOutput, Meta.CountResult equals the
\* number of entries of the result list, with the license-only filter on or off.
C1_CountMatchesList ==
    report # Nil
    => Deref(report).Meta.CountResult = Len(Deref(report).Runtimes)

\* C3: with the license-only filter set, every record of the written result
\* list has a verdict that is present and true, every outcome whose verdict is
\* absent or false is missing from it, and the kept records are in the order of
\* their outcomes: the list is exactly the required records, in outcome order.
C3_FilterKeepsRequired ==
    (report # Nil /\ config.requireLicense)
    => /\ \A i \in DOMAIN Deref(report).Runtimes :
              Deref(report).Runtimes[i].RequireLicense = Ptr(TRUE)
       /\ Deref(report).Runtimes = KeptRecords(Len(results))

\* C3 witness: three outcomes, the middle one without a "required" verdict; the
\* written list holds the first and the third, in that order.
C3_Witness ==
    /\ report # Nil /\ config.requireLicense
    /\ Len(results) = 3
    /\ ~RequiredAt(2)
    /\ Len(Deref(report).Runtimes) = 2
    /\ Deref(report).Runtimes[1].JavaExecutable = results[1].Path
    /\ Deref(report).Runtimes[2].JavaExecutable = results[3].Path

\* the paths printed as "Java executable: ..." lines
ShownPaths == { stdout[i].text : i \in { k \in DOMAIN stdout : stdout[k].kind = "Java executable" } }

\* C4: with -require-license and -eval in text format, only installations whose
\* verdict is "required" are printed.
C4_TextFilterApplied ==
    (pc = "exit0" /\ ~config.jsonOutput /\ config.evaluate /\ config.requireLicense)
    => \A k \in DOMAIN results : results[k].Path \in ShownPaths => RequiredAt(k)

\* the records handleJSONOutput has appended so far
Emitted == Deref(output).Runtimes

\* the outcome a record was built from (the paths of a scan are distinct)
OutcomeOf(rt) == results[CHOOSE k \in DOMAIN results : results[k].Path = rt.JavaExecutable]

HasIdentity(rt) ==
    \/ rt.JavaVersion # <<>> \/ rt.JavaVendor # <<>> \/ rt.JavaRuntime # <<>>
    \/ rt.VersionMajor # 0 \/ rt.VersionUpdate # 0 \/ rt.IsOracle
OutcomeSucceeded(res) == res.Evaluated /\ res.Error = "nil" /\ res.ReturnCode = 0
OutcomeFailed(res) == res.Evaluated /\ (res.Error # "nil" \/ res.ReturnCode # 0)

\* C14: in every record, identity fields are populated only for an evaluation
\* that was attempted and succeeded, a verdict is present only with populated
\* identity, exec_failed is set exactly for an evaluation that was attempted and
\* failed, never together with identity or a verdict, and a discovery-only
\* record has none of them.
C14_RecordCases ==
    output # Nil
    => \A i \in DOMAIN Emitted :
         LET rt == Emitted[i]
             res == OutcomeOf(rt)
         IN /\ HasIdentity(rt) => OutcomeSucceeded(res)
            /\ rt.RequireLicense # Nil => HasIdentity(rt)
            /\ rt.ExecFailed <=> OutcomeFailed(res)
            /\ ~(rt.ExecFailed /\ (HasIdentity(rt) \/ rt.RequireLicense # Nil))
            /\ ~res.Evaluated
                 => (~HasIdentity(rt) /\ rt.RequireLicense = Nil /\ ~rt.ExecFailed)

\* C14 witness: one report with a failed record (flag only) and a record with
\* identity and verdict (no flag).
C14_Witness ==
    /\ report # Nil
    /\ \E i, j \in DOMAIN Deref(report).Runtimes :
          /\ Deref(report).Runtimes[i].ExecFailed
          /\ ~HasIdentity(Deref(report).Runtimes[i])
          /\ HasIdentity(Deref(report).Runtimes[j])
          /\ Deref(report).Runtimes[j].RequireLicense # Nil
          /\ ~Deref(report).Runtimes[j].ExecFailed

\* the report as delivered: printed, or sent by -post
Delivered == IF report # Nil THEN report
             ELSE IF post # Nil THEN Ptr(Deref(post).body) ELSE Nil

\* C15: in every report, Meta.CountRequireLicense is the number of records of
\* the result list whose verdict is required, and Meta.HasOracleJDK holds exactly
\* when some record of the result list has an Oracle vendor.
C15_AggregatesOverEmitted ==
    Delivered # Nil
    => /\ Deref(Delivered).Meta.CountRequireLicense =
             Cardinality({ i \in DOMAIN Deref(Delivered).Runtimes :
                             Deref(Delivered).Runtimes[i].RequireLicense = Ptr(TRUE) })
       /\ Deref(Delivered).Meta.HasOracleJDK
             <=> \E i \in DOMAIN Deref(Delivered).Runtimes :
                     Contains(Deref(Delivered).Runtimes[i].JavaVendor, Oracle)

\* C15 witness: with the filter on, an Oracle runtime that needs no license was
\* dropped next to one that was kept; the report counts the kept one only.
C15_Witness ==
    /\ report # Nil /\ config.requireLicense
    /\ \E k \in DOMAIN results : RecordOf(k).IsOracle /\ ~RequiredAt(k)
    /\ Len(Deref(report).Runtimes) = 1
    /\ Deref(report).Meta.CountRequireLicense = 1
    /\ Deref(report).Meta.HasOracleJDK

\* the captured text names none of the three keys
NoRecognizedKey(text) ==
    /\ ~Contains(text, KeyVersion)
    /\ ~Contains(text, KeyVendor)
    /\ ~Contains(text, KeyRuntimeName)

\* C29: an outcome of a subprocess that exited with 0 and named none of the
\* three keys carries properties with empty strings and major = update = 0; its
\* record has no identity field, no verdict and no exec_failed flag, equals the
\* record of a discovery-only outcome of the same path, is dropped by the
\* license-only filter and is emitted as such without the filter.
C29_KeylessLikeDiscoveryOnly ==
    \A k \in DOMAIN results :
        LET res == results[k]
            rt == RecordOf(k)
        IN (OutcomeSucceeded(res) /\ NoRecognizedKey(res.StdErr))
           => /\ res.Properties # Nil
              /\ Deref(res.Properties) = EmptyProperties
              /\ ~HasIdentity(rt) /\ rt.RequireLicense = Nil /\ ~rt.ExecFailed
              /\ rt = createRuntimeJSON(DiscoveredResult(res.Path), FALSE)
              /\ DroppedByFilter(rt, TRUE)
              /\ (output # Nil /\ cursor > k)
                   => IF config.requireLicense
                      THEN \A i \in DOMAIN Emitted : Emitted[i].JavaExecutable # res.Path
                      ELSE \E i \in DOMAIN Emitted : Emitted[i] = NewRuntimeJSON(res.Path)

\* C29 witness: a report without the filter holds the bare record of a run that
\* exited with 0 and printed no key, next to the flagged record of a failed run.
C29_Witness ==
    /\ report # Nil /\ ~config.requireLicense
    /\ Len(results) = 2 /\ Len(Deref(report).Runtimes) = 2
    /\ OutcomeSucceeded(results[1]) /\ results[1].StdErr = TextNoKeys
    /\ Deref(results[1].Properties) = EmptyProperties
    /\ Deref(report).Runtimes[1] = NewRuntimeJSON(results[1].Path)
    /\ OutcomeFailed(results[2]) /\ Deref(report).Runtimes[2].ExecFailed

---------------------------------------------------------------------------
(* Claims about the walk and the run (Spec) *)

FindReturned == done > 0
ResultPaths == { results[i].Path : i \in DOMAIN results }
UnderGit(path) == \E k \in 1..(Len(path) - 1) : path[k] = ".git"

\* C2: with a maximum depth D >= 0, Find never returns a candidate deeper than
\* D, and it returns every candidate of depth at most D that lies in a readable
\* directory outside .git.
C2_DepthLimit ==
    (FindReturned /\ config.maxDepth >= 0)
    => /\ \A p \in ResultPaths : Len(p) <= config.maxDepth
       /\ \A c \in candidates :
              (Len(c) <= config.maxDepth /\ ~UnderGit(c)) => c \in ResultPaths

\* C8: no candidate located beneath a directory named ".git" is ever among the
\* results of Find.
C8_GitPruned == FindReturned => \A p \in ResultPaths : ~UnderGit(p)

\* C9: whatever errors the walk callback was handed, Find returns no error and
\* its results hold every candidate the file system has shown (these lie in
\* directories that could be read) within the depth limit.
C9_ErrorsNotFatal ==
    FindReturned
    => /\ findErr = "nil"
       /\ \A c \in candidates : WithinDepth(c) => c \in ResultPaths

\* C9 witness: .git could not be read (permission denied), d could not be read
\* (another error), and the candidate java, visited after both, was returned.
C9_Witness ==
    /\ FindReturned
    /\ <<<<".git">>, "perm">> \in errs
    /\ <<<<"d">>, "io">> \in errs
    /\ <<"java">> \in ResultPaths

RootUnusable == root.lstat = "missing" \/ ~root.isDir

\* C10: when the start path does not exist or is not a directory, the run ends
\* in failure and nothing is written as a report.
C10_RootErrorFatal ==
    (root # Nil /\ RootUnusable)
    => /\ pc \notin {"output", "json_loop", "text_loop", "exit0"}
       /\ report = Nil
       /\ stdout = <<>>

\* the k-th candidate visit ended in a failed evaluation
FailedVisit(k) == visits[k].launched /\ (visits[k].err # "nil" \/ visits[k].code # 0)

\* every candidate the file system has shown within the depth limit was handed
\* to evaluateFile and accepted
AllCandidatesVisited ==
    \A c \in candidates :
        WithinDepth(c) => \E k \in DOMAIN visits : visits[k].path = c

\* C12: without -eval no subprocess is launched and every outcome carries only
\* the candidate path (Evaluated false, no properties, no error, no text); with
\* -eval every candidate is evaluated exactly once and its outcome has Evaluated
\* true.
C12_DiscoveryOnly ==
    /\ Len(results) = Len(visits)
    /\ \A i \in DOMAIN results :
           /\ results[i].Path = visits[i].path
           /\ visits[i].launched = config.evaluate
           /\ results[i].Evaluated = config.evaluate
           /\ ~config.evaluate => results[i] = DiscoveredResult(visits[i].path)
    /\ \A i, j \in DOMAIN visits : visits[i].path = visits[j].path => i = j
    /\ FindReturned => AllCandidatesVisited

\* C12 witness: a discovery-only scan returned two outcomes.
C12_Witness ==
    /\ FindReturned /\ ~config.evaluate
    /\ Len(results) = 2
    /\ \A i \in DOMAIN results : ~results[i].Evaluated /\ results[i].Properties = Nil

\* the JSON report holds one record per candidate visit, in order, flagged
\* exec_failed exactly where the evaluation was attempted and failed
OneRecordPerVisit ==
    /\ Len(Deref(report).Runtimes) = Len(visits)
    /\ \A i \in DOMAIN visits :
           /\ Deref(report).Runtimes[i].JavaExecutable = visits[i].path
           /\ Deref(report).Runtimes[i].ExecFailed = FailedVisit(i)

\* C13 as stated: a failed evaluation does not end the walk, and the final
\* report holds exactly one record per candidate, flagged exec_failed exactly on
\* the candidates whose evaluation was attempted and failed.
C13_OneRecordPerCandidate ==
    /\ FindReturned => (findErr = "nil" /\ AllCandidatesVisited)
    /\ report # Nil => OneRecordPerVisit

\* C13 amended: the same, for a report written with the license-only filter off
\* (the filter drops failed and not-required records on purpose).
C13_FailedEvaluationRecorded ==
    /\ FindReturned => (findErr = "nil" /\ AllCandidatesVisited)
    /\ (report # Nil /\ ~config.requireLicense) => OneRecordPerVisit

\* C13 witness: the first of two candidates failed to run, the second was still
\* visited, and the report flags the first only.
C13_Witness ==
    /\ report # Nil /\ ~config.requireLicense
    /\ Len(visits) = 2
    /\ FailedVisit(1) /\ ~FailedVisit(2)
    /\ Deref(report).Runtimes[1].ExecFailed
    /\ ~Deref(report).Runtimes[2].ExecFailed

NameRank(n) == CHOOSE i \in DOMAIN Names : Names[i] = n

RECURSIVE PathBefore(_, _)
\* a depth-first walk that takes the names of each directory in lexical order
\* reaches p strictly before q
PathBefore(p, q) ==
    IF p = <<>> THEN q # <<>>
    ELSE IF q = <<>> THEN FALSE
    ELSE IF Head(p) = Head(q) THEN PathBefore(Tail(p), Tail(q))
    ELSE NameRank(Head(p)) < NameRank(Head(q))

ReportPaths == [i \in DOMAIN Deref(report).Runtimes |-> Deref(report).Runtimes[i].JavaExecutable]
PrintedPaths ==
    LET shown == SelectSeq(stdout, LAMBDA l : l.kind = "Java executable")
    IN [i \in DOMAIN shown |-> shown[i].text]

\* C18: the outcomes of Find are in depth-first visit order, each candidate
\* once, and the report keeps that order.
C18_DiscoveryOrder ==
    /\ \A i, j \in DOMAIN results :
           i < j => PathBefore(results[i].Path, results[j].Path)
    /\ report # Nil =>
           /\ \A i, j \in DOMAIN ReportPaths :
                  i < j => PathBefore(ReportPaths[i], ReportPaths[j])
           /\ ~config.requireLicense =>
                  ReportPaths = [i \in DOMAIN results |-> results[i].Path]
    /\ (pc = "exit0" /\ ~config.jsonOutput) =>
           PrintedPaths = [i \in DOMAIN results |-> results[i].Path]

\* C18 witness: d/java was visited before java and the report lists them in
\* that order.
C18_Witness ==
    /\ report # Nil
    /\ ReportPaths = << <<"d", "java">>, <<"java">> >>

\* C19: no status line is written to standard error after Find has returned.
C19_ReporterStopped == lateTicks = 0

\* C20: sendJSON returns no error exactly when the connection succeeded and the
\* response status is within 200..299.
C20_Any2xxDelivered ==
    post # Nil
    => ((Deref(post).err = "nil")
          <=> (Deref(post).response.err = "nil"
                 /\ Deref(post).response.status \in 200..299))

\* C22: a directory is counted before the depth test: when Find returns,
\* scanned is the number of directories the callback was handed without error,
\* those beyond the depth limit included.
C22_CountedBeforeDepthTest ==
    FindReturned
    => /\ scanned = dirCalls.read
       /\ dirCalls.pruned <= scanned
       /\ (config.maxDepth < 0 => dirCalls.pruned = 0)

\* C22 witness: with depth limit 0 the start directory and two directories
\* below it, both pruned, were counted.
C22_Witness ==
    /\ FindReturned /\ config.maxDepth = 0
    /\ dirCalls.pruned = 2
    /\ scanned = 3

\* C28: a directory that could not be listed is not counted: the step that
\* hands a read error to the callback leaves scanned as it is, and scanned is at
\* all times the number of directories listed, not of directories tried.
C28_UnlistedNotCounted ==
    /\ [](scanned = dirCalls.read)
    /\ [][dirCalls.failed' # dirCalls.failed => scanned' = scanned]_vars

\* C28 witness: .git was not listed for lack of permission, d for another
\* error; only the start directory was counted.
C28_Witness ==
    /\ FindReturned
    /\ dirCalls.failed = 2 /\ dirCalls.read = 1
    /\ <<<<".git">>, "perm">> \in errs /\ <<<<"d">>, "io">> \in errs
    /\ scanned = 1

\* C27: both counters only grow, by exactly 1 in a step; found grows in
\* exactly the steps that append an outcome, results only grow, and found is
\* the number of outcomes, also when Find returns.
C27_CountersGrowByOne ==
    /\ [][ /\ scanned' \in {scanned, scanned + 1}
           /\ found' \in {found, found + 1}
           /\ (found' = found + 1) <=> (Len(results') = Len(results) + 1)
           /\ Len(results') >= Len(results)
           /\ (scanned' = scanned + 1) <=> (dirCalls'.read = dirCalls.read + 1) ]_vars
    /\ [](found = Len(results))

\* C27 witness: Find returned two outcomes from two directories, one of them a
\* failed evaluation, with found = 2 and scanned = 2.
C27_Witness ==
    /\ FindReturned
    /\ found = 2 /\ Len(results) = 2 /\ scanned = 2
    /\ results[1].Error # "nil" /\ results[2].Error = "nil"

\* C30: Find closes done exactly once: not before the walk has ended and the
\* last candidate has been evaluated and appended, in the one step in which Find
\* returns, and never a second time; the outcomes do not change afterwards.
C30_DoneClosedOnce ==
    /\ [](done <= 1)
    /\ [](pc \in {"main", "find", "walk", "cmd.Run"} => done = 0)
    /\ [](pc \in {"returned", "output", "json_loop", "text_loop", "exit0"} => done = 1)
    /\ [](done > 0 => (work = <<>> /\ AllCandidatesVisited /\ Len(results) = Len(visits)))
    /\ [][done' # done => (done = 0 /\ done' = 1 /\ pc = "walk" /\ pc' = "returned")]_vars
    /\ [][done > 0 => results' = results]_vars

\* C30 witness: Find has just returned after a walk that was handed two errors
\* and appended a candidate after them; done is closed once.
C30_Witness ==
    /\ pc = "returned" /\ done = 1
    /\ <<<<".git">>, "perm">> \in errs /\ <<<<"d">>, "io">> \in errs
    /\ Len(results) = 1 /\ results[1].Path = <<"java">>

---------------------------------------------------------------------------
(* Claims about candidates (SpecCandidate) *)

\* the name a candidate must have on the platform
TargetName == IF goos = "windows" THEN "java.exe" ELSE "java"

\* C11: a visited entry becomes a candidate exactly when it is not a directory,
\* its base name equals the platform's target name (case-sensitive) and it is
\* executable: some execute bit set on non-Windows, any regular file on Windows.
C11_CandidateIff ==
    pc = "candidate_done"
    => ((results # <<>>)
          <=> (/\ Head(work).lstat = "ok"
               /\ ~Head(work).isDir
               /\ Head(work).name = TargetName
               /\ (goos = "windows" \/ Head(work).exec # {})))

\* C11 witness: on Windows a regular file java.exe without any execute bit
\* became a candidate.
C11_Witness ==
    /\ pc = "candidate_done"
    /\ goos = "windows"
    /\ Head(work).name = "java.exe" /\ Head(work).exec = {}
    /\ results # <<>>

---------------------------------------------------------------------------
(* Claims about the property parser (SpecParse) *)

\* evaluateJava has returned and the subprocess had exited with code 0
ExitedWithZero ==
    pc = "evaluate_done" /\ results[1].Error = "nil" /\ results[1].ReturnCode = 0

Parsed == Deref(results[1].Properties)

\* the value of the last written line "key = value" with the given key
LastValue(key) ==
    LET at == { i \in DOMAIN javaOutput : javaOutput[i].eq /\ javaOutput[i].key = key }
    IN IF at = {} THEN <<>>
       ELSE javaOutput[CHOOSE i \in at : \A k \in at : k <= i].value

\* C16: ParseJavaProperties returns a record for every input; for a line with
\* "=" the trimmed text before the first "=" is the key and the trimmed rest
\* the value; only the keys java.version, java.vendor and java.runtime.name set
\* version, vendor and runtime-name; every other line leaves the record as it was.
C16_ParseKeys ==
    ExitedWithZero
    => /\ results[1].Properties # Nil
       /\ Parsed.Version = LastValue(KeyVersion)
       /\ Parsed.Vendor = LastValue(KeyVendor)
       /\ Parsed.RuntimeName = LastValue(KeyRuntimeName)

\* C16 witness: the vendor line "java.vendor = a=b" was followed by the line
\* "java.version.date = 2024"; the vendor is "a=b" and no version was set.
C16_Witness ==
    /\ ExitedWithZero
    /\ Len(javaOutput) = 2
    /\ javaOutput[1].key = KeyVendor /\ javaOutput[1].value = <<"a","=","b">>
    /\ javaOutput[2].key = KeyVersion \o <<".","d","a","t","e">>
    /\ Parsed.Vendor = <<"a","=","b">>
    /\ Parsed.Version = <<>>

\* the version the only written line was written from
OnlyVersion == Deref(javaOutput[1].ver)

\* C17: a legacy version 1.<major>.0_<update> decomposes into (major, update)
\* and a modern version <major>.<minor>.<update> into (major, update); a modern
\* version with fewer than three components and a legacy version without
\* underscore get update 0.
C17_VersionDecomposition ==
    (ExitedWithZero /\ Len(javaOutput) = 1 /\ javaOutput[1].ver # Nil)
    => /\ Parsed.Version = VersionText(OnlyVersion)
       /\ Parsed.Major = OnlyVersion.major
       /\ Parsed.Update =
              (IF OnlyVersion.scheme = "legacy"
               THEN (IF OnlyVersion.parts = 4 THEN OnlyVersion.update ELSE 0)
               ELSE (IF OnlyVersion.parts >= 3 THEN OnlyVersion.update ELSE 0))

\* C17 witness: "1.8.0_202" gave (8, 202).
C17_Witness ==
    /\ ExitedWithZero /\ Len(javaOutput) = 1 /\ javaOutput[1].ver # Nil
    /\ Parsed.Version = <<"1",".","8",".","0","_","2","0","2">>
    /\ Parsed.Major = 8 /\ Parsed.Update = 202

\* C23: evaluateJava parses only on success: the outcome has properties exactly
\* when the error is nil and the exit code 0; otherwise it has none, whatever
\* standard error holds, and it carries the error, the exit code of an exit
\* error (0 for any other error) and the captured text.
C23_ParseOnlyOnSuccess ==
    pc = "evaluate_done"
    => /\ (results[1].Properties # Nil)
              <=> (results[1].Error = "nil" /\ results[1].ReturnCode = 0)
       /\ results[1].Error = visits[1].err
       /\ results[1].ReturnCode = (IF visits[1].err = "exit" THEN visits[1].code ELSE 0)
       /\ results[1].StdErr = OutputText(javaOutput)
       /\ results[1].Evaluated

\* C23 witness: the subprocess wrote "java.version = 11.0.20" and exited with
\* code 1; the outcome has the text, the code and no properties.
C23_Witness ==
    /\ pc = "evaluate_done"
    /\ javaOutput = <<VersionLine(Version("modern", 11, 20, 3))>>
    /\ visits[1].err = "exit" /\ results[1].ReturnCode = 1
    /\ results[1].StdErr = OutputText(javaOutput)
    /\ results[1].Properties = Nil

\* the odd version the only written line holds
OnlyOddVersion == CHOOSE o \in OddVersions : o.text = javaOutput[1].value

\* a component that is an integer in decimal notation, with or without sign
ValidInteger(c) ==
    LET body == IF c # <<>> /\ c[1] \in {"+", "-"} THEN Tail(c) ELSE c
    IN body # <<>> /\ \A i \in DOMAIN body : body[i] \in {"0","1","2","3","4","5","6","7","8","9"}

\* the number a component stands for; 0 for one that is not an integer
ComponentValue(c) ==
    IF ~ValidInteger(c) THEN 0
    ELSE IF c[1] = "-" THEN 0 - DecimalValue(Tail(c))
    ELSE IF c[1] = "+" THEN DecimalValue(Tail(c))
    ELSE DecimalValue(c)

\* C24: a version component that is not an integer gives 0 and the parse goes
\* on: the record is returned with the version text as written, major 0 for a
\* major component that is not numeric, update 0 for an update component that is
\* not numeric or is absent, and the other component still read.
C24_BadComponentIsZero ==
    (ExitedWithZero /\ Len(javaOutput) = 1
        /\ \E o \in OddVersions : javaOutput[1] = OddVersionLine(o))
    => /\ Parsed.Version = OnlyOddVersion.text
       /\ Parsed.Major = ComponentValue(OnlyOddVersion.major)
       /\ Parsed.Update = (IF OnlyOddVersion.update = Nil THEN 0
                           ELSE ComponentValue(Deref(OnlyOddVersion.update)))
       /\ ~ValidInteger(OnlyOddVersion.major) => Parsed.Major = 0
       /\ (OnlyOddVersion.update = Nil \/ ~ValidInteger(Deref(OnlyOddVersion.update)))
              => Parsed.Update = 0

\* C24 witness: "1.8.0_202-b08" gave (8, 0).
C24_Witness ==
    /\ ExitedWithZero /\ Len(javaOutput) = 1
    /\ javaOutput[1].value = <<"1",".","8",".","0","_","2","0","2","-","b","0","8">>
    /\ Parsed.Major = 8 /\ Parsed.Update = 0

---------------------------------------------------------------------------
(* Claims about scheduling (SpecLive) *)

\* C21: Find returns on every finite tree unless a launched subprocess never
\* exits; once a subprocess never exits the walk stays inside cmd.Run, Find
\* never returns and no report is produced.
C21_FindTerminates ==
    /\ (pc = "find") ~> (FindReturned \/ hung)
    /\ [](hung => (pc = "cmd.Run" /\ ~FindReturned /\ report = Nil /\ stdout = <<>>))

\* C21 witness: the first candidate was evaluated, the subprocess of the second
\* never exits.
C21_Witness ==
    /\ hung /\ pc = "cmd.Run"
    /\ Len(results) = 1 /\ results[1].Evaluated
    /\ work # <<>> /\ IsCandidate(Head(work))

\* a step of the reporter goroutine
ReporterStep == reporter = "running" /\ (ticks' # ticks \/ reporter' = "exited")

\* C25: the reporter only observes: a step of the reporter leaves the counters,
\* the outcomes, the walk and the report as they are; the walk can take its next
\* step whatever the reporter has done; and what Find returns is fixed by the
\* visits of the walk alone, with or without status lines.
C25_ReporterObservesOnly ==
    /\ [][ReporterStep =>
              UNCHANGED <<pc, config, results, visits, scanned, found, work, findErr, done,
                          hung, dirCalls, listed, candidates, errs, reportVars>>]_vars
    /\ [](pc \in {"find", "walk"} => ENABLED Walk)
    /\ [](FindReturned =>
              /\ found = Len(visits) /\ scanned = dirCalls.read
              /\ Len(results) = Len(visits)
              /\ \A i \in DOMAIN visits :
                     /\ results[i].Path = visits[i].path
                     /\ results[i].Error = visits[i].err
                     /\ results[i].Evaluated = visits[i].launched)

\* C25 witness: a status line was written in the middle of a walk that went on
\* to return two outcomes.
C25_Witness ==
    /\ FindReturned /\ ticks = 1 /\ lateTicks = 0
    /\ Len(results) = 2 /\ found = 2 /\ scanned = 2

\* C26: once done is closed the reporter goroutine eventually returns from its
\* loop, and it writes no status line after it has taken the done case.
C26_ReporterExits ==
    /\ (done > 0) ~> (reporter = "exited")
    /\ [][reporter = "exited" => (ticks' = ticks /\ reporter' = "exited")]_vars

\* while the process lives: once done is closed the reporter returns from its
\* loop unless the process ends first
ReporterExitsOrProcessEnds ==
    /\ (done > 0) ~> (reporter = "exited" \/ Exited)
    /\ [][reporter = "exited" => (ticks' = ticks /\ reporter' = "exited")]_vars

===========================================================================
